---- MODULE Spec2Model ----
(***************************************************************************)
(* Product catalogue RAG indexer (modules/ai-agents/product_rag/indexer.py) *)
(* ProductIndexer: initialize, _product_to_text, index_products, search.    *)
(*                                                                          *)
(* Conventions.  An Optional[T] field is a sequence: << >> for None and     *)
(* <<v>> for the value v.  A price is a whole number of cents.  A formatted *)
(* text is the sequence of its pieces (literal fragments, field values and  *)
(* decimal digits, each a string) in the order the f-string emits them.     *)
(* A duration is a whole number of seconds.                                 *)
(***************************************************************************)
EXTENDS Integers, Sequences, FiniteSets, TLC

\* ---------------------------------------------------------------- bounds
MaxLen == 3
MaxBatch == 3
MaxDur == 1
MaxClients == 1
MaxHits == 2
MaxLimit == 2

\* ------------------------------------------------------------ python bits
None == << >>

Some(v) == <<v>>

\* `a or b` on an Optional[str] a and a str b.
PyOr(opt, dflt) == IF opt # None /\ opt[1] # "" THEN opt[1] ELSE dflt

Max(a, b) == IF a >= b THEN a ELSE b

Min(a, b) == IF a <= b THEN a ELSE b

\* A loop over the full batches only: range(start, stop - step + 1, step).
RECURSIVE PyRangeFullOnly(_, _, _)
PyRangeFullOnly(start, stop, step) ==
    IF (step > 0 /\ start + step <= stop) \/ (step < 0 /\ start > stop)
    THEN <<start>> \o PyRangeFullOnly(start + step, stop, step)
    ELSE << >>

\* range(start, stop, step) as the sequence of the values it yields; step # 0
\* (range() itself raises ValueError for step = 0, see index_products).
RECURSIVE PyRange(_, _, _)
PyRange(start, stop, step) ==
    IF (step > 0 /\ start < stop) \/ (step < 0 /\ start > stop)
    THEN <<start>> \o PyRange(start + step, stop, step)
    ELSE << >>

\* An off-by-one slice: s[lo:hi - 1].
PySliceShort(s, lo, hi) ==
    LET h == IF hi - 1 < 0 THEN Max(Len(s) + hi - 1, 0) ELSE Min(hi - 1, Len(s))
    IN  IF lo >= h THEN << >> ELSE SubSeq(s, lo + 1, h)

\* s[lo:hi] for 0 <= lo, with Python's clamping of hi (a negative hi counts
\* from the end).
PySlice(s, lo, hi) ==
    LET h == IF hi < 0 THEN Max(Len(s) + hi, 0) ELSE Min(hi, Len(s))
    IN  IF lo >= h THEN << >> ELSE SubSeq(s, lo + 1, h)

DigitStr == <<"0", "1", "2", "3", "4", "5", "6", "7", "8", "9">>

\* str(n) for n >= 0, as the sequence of its decimal digits.
RECURSIVE Dec(_)
Dec(n) == IF n < 10 THEN <<DigitStr[n + 1]>> ELSE Dec(n \div 10) \o <<DigitStr[(n % 10) + 1]>>

\* format(x, ".2f") of an amount of c cents, c >= 0.
Fmt2f(c) == Dec(c \div 100) \o <<".", DigitStr[((c % 100) \div 10) + 1], DigitStr[(c % 10) + 1]>>

\* ", ".join(items) for a sequence of piece-sequences.
RECURSIVE Join(_)
Join(items) ==
    IF items = << >> THEN << >>
    ELSE IF Len(items) = 1 THEN items[1]
    ELSE items[1] \o <<", ">> \o Join(Tail(items))

\* ------------------------------------------------------- ProductDocument
\* The pydantic model: id, sku, name, description, category are required;
\* the others default to None / {} / 0 / [].
ProductDocument(id, sku, name, description, category) ==
    [id |-> id, sku |-> sku, name |-> name, description |-> description,
     category |-> category, subcategory |-> None, specs |-> << >>,
     b2b_price |-> None, retail_price |-> None, stock |-> 0, brand |-> None,
     tags |-> << >>]

\* The record of the specification's example: no subcategory, no price, no
\* brand, no specs, no tags.
PanelX1 == ProductDocument(0, "X1", "Panel", "LED panel", "LED")

\* A fully populated record.
StripS2 ==
    [ProductDocument(0, "S2", "Strip", "LED strip 5m", "LED") EXCEPT
        !.subcategory = Some("Strips"), !.brand = Some("Lumina"),
        !.specs = << <<"power", "14W">>, <<"ip", "IP65">> >>,
        !.b2b_price = Some(1999), !.retail_price = Some(2950), !.stock = 12,
        !.tags = <<"led", "strip">>]

\* A record whose price is present and zero.
SampleF3 ==
    [ProductDocument(0, "F3", "Sample", "Free sample", "Promo") EXCEPT
        !.b2b_price = Some(0), !.tags = <<"free">>]

Catalogue == {PanelX1, StripS2, SampleF3}

\* ------------------------------------------------------ _product_to_text
\* The f-string of lines 68-78.  Everything outside a {...} replacement
\* field is literal text; on the price line the only replacement field is
\* {product.b2b_price:.2f}, and the rest of the line, including the words
\* "if product.b2b_price else 'Contact for pricing'", is literal.
\* format(None, ".2f") raises TypeError.
Raised(exc) == [ok |-> FALSE, exc |-> exc]

Returned(v) == [ok |-> TRUE, value |-> v]

SpecsText(product) ==
    IF product.specs # << >>
    THEN Join([k \in 1..Len(product.specs) |->
                  <<product.specs[k][1], ": ", product.specs[k][2]>>])
    ELSE << >>

TagsText(product) ==
    IF product.tags # << >>
    THEN Join([k \in 1..Len(product.tags) |-> <<product.tags[k]>>])
    ELSE << >>

PriceLine(product) ==
    IF product.b2b_price = None
    THEN Raised("TypeError")
    ELSE Returned(<<"B2B Price: €">> \o Fmt2f(product.b2b_price[1])
                  \o <<" if product.b2b_price else '", "Contact for pricing", "'">>)

_product_to_text(product) ==
    LET price == PriceLine(product)
    IN  IF ~price.ok THEN price
        ELSE Returned(
            <<"Product: ", product.name, "\n">>
            \o <<"SKU: ", product.sku, "\n">>
            \o <<"Category: ", product.category, " > ", PyOr(product.subcategory, "General"), "\n">>
            \o <<"Brand: ", PyOr(product.brand, "N/A"), "\n">>
            \o <<"Description: ", product.description, "\n">>
            \o <<"Specifications: ">> \o SpecsText(product) \o <<"\n">>
            \o price.value \o <<"\n">>
            \o <<"Stock: ">> \o Dec(product.stock) \o <<" units", "\n">>
            \o <<"Tags: ">> \o TagsText(product))

\* The metadata mapping of lines 109-115.
Metadata(product) ==
    [product_id |-> product.id, sku |-> product.sku, category |-> product.category,
     b2b_price |-> product.b2b_price, stock |-> product.stock]

\* ------------------------------------------------------------------ state
VARIABLES
    config,         \* self.config
    table_name,     \* self.table_name
    vector_db,      \* self.vector_db: None, or Some(k) for the k-th LanceDb built
    _initialized,   \* self._initialized
    op,             \* the operation invoked last
    pc,             \* "idle", or the position inside index_products
    products,       \* index_products: the products argument
    batch_size,     \* index_products: the batch_size argument
    failAt,         \* the ordinals of the add calls of this run the store rejects
    starts,         \* the values range(0, len(products), batch_size) has yet to yield
    i,              \* the outer loop variable
    batch,          \* products[i:i + batch_size]
    pos,            \* how many products of batch the inner loop has taken
    indexed_count,
    error_count,
    addLog,         \* the vector_db.add calls of this run, in order, with outcome
    attempts,       \* the ids of the products the inner loop has taken, in order
    searchArgs,     \* search: query, limit, min_score
    searchLog,      \* the vector_db.search calls of this search, in order
    result,         \* what the last call returned or raised
    prev,           \* the report and add calls of the preceding run, when it was
                    \* on the same products, the same client and the same failAt
    \* b2b_chatbot/api.py
    _chatbot,       \* the module-level _chatbot: None, or Some(k) for agents[k]
    agents,         \* the B2BChatbotAgent objects constructed so far, in order
    chatPc,         \* "idle", or the position inside the chat endpoint
    request,        \* the ChatRequest being served
    responses,      \* the HTTP responses sent so far, in order
    \* deployment/deploy_auto.py
    deployPc,       \* the position inside main
    current_password,
    exit_code,
    changed,
    commands,       \* the commands run so far, in order, with their exit status
    printed,        \* the outcome lines main has printed
    \* supplier_scraper/mcp_agent.py
    suppliers,      \* self.suppliers
    scrapePc,       \* "idle", or the position inside scrape_all_suppliers
    supplierIdx,    \* how many elements the for loop's list iterator has yielded
    scrapeResults,  \* scrape_all_suppliers: the local dict results
    scrapeAttempts, \* the scrape_supplier calls of this run, in order, with outcome
    scrapeReturn,   \* None, or Some(the dict the last run returned)
    \* deployment/deploy_auto.py, run_command_with_password
    ptyPc,          \* "idle", or the position inside run_command_with_password
    ptyArgs,        \* password, new_password
    handled,        \* the chunks read so far, each with the writes it triggered
    password_changed,
    ptyResult       \* None, or Some((exit status, password_changed))

indexerVars == <<config, table_name, vector_db, _initialized>>

loopVars == <<starts, i, batch, pos, indexed_count, error_count>>

productRagVars == <<config, table_name, vector_db, _initialized, op, pc, products,
                    batch_size, failAt, starts, i, batch, pos, indexed_count,
                    error_count, addLog, attempts, searchArgs, searchLog, result, prev>>

chatbotVars == <<_chatbot, agents, chatPc, request, responses>>

deployVars == <<deployPc, current_password, exit_code, changed, commands, printed>>

\* What the steps of one component leave alone.
scraperVars == <<suppliers, scrapePc, supplierIdx, scrapeResults, scrapeAttempts,
                 scrapeReturn>>

ptyVars == <<ptyPc, ptyArgs, handled, password_changed, ptyResult>>

notProductRagVars == <<chatbotVars, deployVars, scraperVars, ptyVars>>

notChatbotVars == <<productRagVars, deployVars, scraperVars, ptyVars>>

notDeployVars == <<productRagVars, chatbotVars, scraperVars, ptyVars>>

notScraperVars == <<productRagVars, chatbotVars, deployVars, ptyVars>>

notPtyVars == <<productRagVars, chatbotVars, deployVars, scraperVars>>

vars == <<productRagVars, chatbotVars, deployVars, scraperVars, ptyVars>>

\* get_config(): the module-level AIConfig singleton, with its defaults.
get_config == [lancedb_uri |-> "./data/lancedb", openai_api_key |-> ""]

NoResult == [kind |-> "none"]

NoPrev == [kind |-> "none"]

NoArgs == [kind |-> "none"]

Raise(exc) == [kind |-> "raise", exc |-> exc]

\* ----------------------------------------------------------- environment
\* The inputs of index_products: a sequence of catalogue records, the k-th
\* with id k, and the set of add-call ordinals the store rejects.
WithIds(kinds) == [k \in 1..Len(kinds) |-> [kinds[k] EXCEPT !.id = k]]

KindSeqs == UNION {[1..n -> Catalogue] : n \in 0..MaxLen}

\* The number of add calls a run on these records makes: one for each record
\* that formats.
AddCalls(prods) == Cardinality({k \in 1..Len(prods) : _product_to_text(prods[k]).ok})

SmallInputs ==
    UNION {{[products |-> WithIds(ks), failAt |-> f] : f \in SUBSET (1..AddCalls(ks))} :
              ks \in KindSeqs}

\* Ten well-priced records against a store that rejects every third add.
ExampleInput ==
    [products |-> WithIds([k \in 1..10 |-> StripS2]), failAt |-> {3, 6, 9}]

BatchSizes == -1..MaxBatch

\* The batch size of the example, and the default of the parameter.
ExampleBatchSizes == {4, 100}

\* The batch sizes a caller tries on given records: the long example is also
\* run with the example's sizes.
SizesFor(prods) ==
    IF Len(prods) > MaxLen THEN BatchSizes \cup ExampleBatchSizes ELSE BatchSizes

\* What vector_db.search may hand back: up to MaxHits result objects, scores in
\* tenths, or an exception.
StripHit == [text |-> "Strip", metadata |-> [sku |-> "S2"], score |-> 9]

SampleHit == [text |-> "Sample", metadata |-> [sku |-> "F3"], score |-> 6]

PanelHit == [text |-> "Panel", metadata |-> [sku |-> "X1"], score |-> 3]

HitPool == {StripHit, SampleHit, PanelHit}

StoreResults == UNION {[1..n -> HitPool] : n \in 0..MaxHits}

Queries == {"", "led strip"}

Limits == 0..MaxLimit

MinScores == {-1, 5, 6, 11}

\* A store that answers with scores 0.9, 0.6, 0.3 to a search with the default
\* min_score 0.5 and limit 10.
ExampleSearch ==
    [query |-> "led strip", limit |-> 10, min_score |-> 5,
     results |-> <<StripHit, SampleHit, PanelHit>>]

\* -------------------------------------------------------------- __init__
Init ==
    /\ config = get_config
    /\ table_name = "product_catalog"
    /\ vector_db = None
    /\ _initialized = FALSE
    /\ op = "__init__"
    /\ pc = "idle"
    /\ products = << >>
    /\ batch_size = 100
    /\ failAt = {}
    /\ starts = << >>
    /\ i = 0
    /\ batch = << >>
    /\ pos = 0
    /\ indexed_count = 0
    /\ error_count = 0
    /\ addLog = << >>
    /\ attempts = << >>
    /\ searchArgs = NoArgs
    /\ searchLog = << >>
    /\ result = NoResult
    /\ prev = NoPrev
    /\ _chatbot = None
    /\ agents = << >>
    /\ chatPc = "idle"
    /\ request = NoArgs
    /\ responses = << >>
    /\ deployPc = "check_credentials"
    /\ current_password = "INITIAL_PASSWORD"
    /\ exit_code = None
    /\ changed = FALSE
    /\ commands = << >>
    /\ printed = << >>
    /\ suppliers = << >>
    /\ scrapePc = "idle"
    /\ supplierIdx = 0
    /\ scrapeResults = << >>
    /\ scrapeAttempts = << >>
    /\ scrapeReturn = None
    /\ ptyPc = "idle"
    /\ ptyArgs = NoArgs
    /\ handled = << >>
    /\ password_changed = FALSE
    /\ ptyResult = None

\* The locals of a finished call are gone when the next operation starts.
ClearIndexFrame ==
    /\ products' = << >>
    /\ batch_size' = 100
    /\ failAt' = {}
    /\ starts' = << >>
    /\ i' = 0
    /\ batch' = << >>
    /\ pos' = 0
    /\ indexed_count' = 0
    /\ error_count' = 0
    /\ addLog' = << >>
    /\ attempts' = << >>
    /\ prev' = NoPrev

ClearSearchFrame ==
    /\ searchArgs' = NoArgs
    /\ searchLog' = << >>

\* ------------------------------------------------------------ the caller
\* The indexer is used from one thread: an operation starts when none is in
\* progress and the caller has taken the outcome of the preceding one.
Callable == pc = "idle" /\ result = NoResult

\* The caller takes what the last operation returned or raised; its frame is
\* gone.
TakeResult ==
    /\ UNCHANGED notProductRagVars
    /\ pc = "idle"
    /\ result # NoResult
    /\ result' = NoResult
    /\ op' = "none"
    /\ ClearIndexFrame
    /\ ClearSearchFrame
    /\ UNCHANGED <<indexerVars, pc>>

\* ------------------------------------------------------------ initialize
NextClient == IF vector_db = None THEN 1 ELSE vector_db[1] + 1

\* LanceDb(...) either returns a client or raises; _initialized is set only
\* after the assignment to self.vector_db.
Initialize(built) ==
    /\ UNCHANGED notProductRagVars
    /\ Callable
    /\ built => NextClient <= MaxClients
    /\ op' = "initialize"
    /\ IF built
       THEN /\ vector_db' = Some(NextClient)
            /\ _initialized' = TRUE
            /\ result' = [kind |-> "return"]
       ELSE /\ UNCHANGED <<vector_db, _initialized>>
            /\ result' = Raise("LanceDbError")
    /\ ClearIndexFrame
    /\ ClearSearchFrame
    /\ UNCHANGED <<config, table_name, pc>>

\* -------------------------------------------------------- index_products
\* The guard left out.
NotReadyUnchecked(initialized) == FALSE

\* The guard of lines 95-96 and 170-171.
NotReady(initialized) == ~initialized

\* vector_db.add(text=..., metadata=...) as the n-th add call of the run: with
\* no client the attribute lookup on None raises; otherwise the store rejects
\* the calls whose ordinal is in fails.
StoreAdd(db, n, fails) ==
    IF db = None THEN "AttributeError"
    ELSE IF n \in fails THEN "StoreError"
    ELSE "ok"

\* A try body that ignores a rejected add.
TryBodySwallow(product, db, calls, fails) ==
    LET text == _product_to_text(product)
        outcome == StoreAdd(db, Len(calls) + 1, fails)
    IN  IF ~text.ok THEN [calls |-> calls, exc |-> text.exc]
        ELSE IF db = None THEN [calls |-> calls, exc |-> outcome]
        ELSE [calls |-> Append(calls, [text |-> text.value, metadata |-> Metadata(product),
                                       outcome |-> outcome]),
              exc |-> "none"]

\* A try body that submits a rejected product a second time.
TryBodyRetry(product, db, calls, fails) ==
    LET text == _product_to_text(product)
        outcome == StoreAdd(db, Len(calls) + 1, fails)
        again == StoreAdd(db, Len(calls) + 2, fails)
        call(o) == [text |-> text.value, metadata |-> Metadata(product), outcome |-> o]
    IN  IF ~text.ok THEN [calls |-> calls, exc |-> text.exc]
        ELSE IF db = None THEN [calls |-> calls, exc |-> outcome]
        ELSE IF outcome = "ok" THEN [calls |-> Append(calls, call(outcome)), exc |-> "none"]
        ELSE [calls |-> calls \o <<call(outcome), call(again)>>,
              exc |-> IF again = "ok" THEN "none" ELSE again]

\* The try body of lines 108-117 for one product: the add calls made so far
\* extended by this product's, and the exception that left the body ("none"
\* when indexed_count += 1 was reached).
TryBody(product, db, calls, fails) ==
    LET text == _product_to_text(product)
        outcome == StoreAdd(db, Len(calls) + 1, fails)
    IN  IF ~text.ok THEN [calls |-> calls, exc |-> text.exc]
        ELSE IF db = None THEN [calls |-> calls, exc |-> outcome]
        ELSE [calls |-> Append(calls, [text |-> text.value, metadata |-> Metadata(product),
                                       outcome |-> outcome]),
              exc |-> IF outcome = "ok" THEN "none" ELSE outcome]

\* A handler for the store's errors only.
CatchesStoreOnly(exc) == exc \in {"StoreError"}

\* `except Exception`: every exception the try body can raise here is a
\* subclass of Exception.
Catches(exc) == exc \in {"TypeError", "StoreError", "AttributeError"}

\* A report whose throughput divides by the bare duration.
ReportNoFloor(indexed, errors, prods, d) ==
    IF d = 0 THEN [kind |-> "raise", exc |-> "ZeroDivisionError"]
    ELSE [kind |-> "report", indexed |-> indexed, errors |-> errors, total |-> Len(prods),
          duration |-> d, products_per_second |-> [num |-> indexed, den |-> d]]

\* The dictionary of lines 124-130; d is (end_time - start_time).total_seconds().
Report(indexed, errors, prods, d) ==
    [kind |-> "report", indexed |-> indexed, errors |-> errors, total |-> Len(prods),
     duration |-> d,
     products_per_second |-> [num |-> indexed, den |-> Max(d, 1)]]

\* What the next run remembers of this one, when it is a finished run on the
\* same products and failAt.
Remembered(prods, fails) ==
    IF op = "index_products" /\ pc = "idle" /\ result.kind = "report"
       /\ products = prods /\ failAt = fails
    THEN [kind |-> "run", batch_size |-> batch_size, indexed |-> result.indexed,
          errors |-> result.errors, total |-> result.total, calls |-> addLog]
    ELSE NoPrev

\* The call up to the first iteration of the outer loop: the guard, then
\* range(0, len(products), batch_size), which raises ValueError for a step of 0.
IndexProductsCall(prods, fails, b) ==
    /\ UNCHANGED notProductRagVars
    /\ pc = "idle"
    /\ result = NoResult \/ Remembered(prods, fails) # NoPrev
    /\ op' = "index_products"
    /\ products' = prods
    /\ failAt' = fails
    /\ batch_size' = b
    /\ prev' = Remembered(prods, fails)
    /\ i' = 0
    /\ batch' = << >>
    /\ pos' = 0
    /\ indexed_count' = 0
    /\ error_count' = 0
    /\ addLog' = << >>
    /\ attempts' = << >>
    /\ ClearSearchFrame
    /\ IF NotReady(_initialized)
       THEN /\ result' = Raise("RuntimeError")
            /\ starts' = << >>
            /\ pc' = "idle"
       ELSE IF b = 0
       THEN /\ result' = Raise("ValueError")
            /\ starts' = << >>
            /\ pc' = "idle"
       ELSE /\ result' = NoResult
            /\ starts' = PyRange(0, Len(prods), b)
            /\ pc' = "for_i"
    /\ UNCHANGED indexerVars

\* for i in range(...): batch = products[i:i + batch_size]
ForBatch ==
    /\ UNCHANGED notProductRagVars
    /\ pc = "for_i"
    /\ starts # << >>
    /\ i' = Head(starts)
    /\ starts' = Tail(starts)
    /\ batch' = PySlice(products, Head(starts), Head(starts) + batch_size)
    /\ pos' = 0
    /\ pc' = "for_product"
    /\ UNCHANGED <<indexerVars, op, products, batch_size, failAt, indexed_count,
                   error_count, addLog, attempts, searchArgs, searchLog, result, prev>>

\* for product in batch: try ... except Exception ...
ForProduct ==
    /\ UNCHANGED notProductRagVars
    /\ pc = "for_product"
    /\ pos < Len(batch)
    /\ LET product == batch[pos + 1]
           r == TryBody(product, vector_db, addLog, failAt)
       IN  /\ attempts' = Append(attempts, product.id)
           /\ addLog' = r.calls
           /\ pos' = pos + 1
           /\ IF r.exc = "none"
              THEN /\ indexed_count' = indexed_count + 1
                   /\ UNCHANGED <<error_count, pc, result>>
              ELSE IF Catches(r.exc)
              THEN /\ error_count' = error_count + 1
                   /\ UNCHANGED <<indexed_count, pc, result>>
              ELSE /\ pc' = "idle"
                   /\ result' = Raise(r.exc)
                   /\ UNCHANGED <<indexed_count, error_count>>
    /\ UNCHANGED <<indexerVars, op, products, batch_size, failAt, starts, i, batch,
                   searchArgs, searchLog, prev>>

\* An inner loop that drops the client after each batch.
ForProductEndDropsClient ==
    /\ UNCHANGED notProductRagVars
    /\ pc = "for_product"
    /\ pos = Len(batch)
    /\ pc' = "for_i"
    /\ vector_db' = None
    /\ UNCHANGED <<config, table_name, _initialized, op, products, batch_size, failAt,
                   loopVars, addLog, attempts, searchArgs, searchLog, result, prev>>

\* The inner loop is exhausted.
ForProductEnd ==
    /\ UNCHANGED notProductRagVars
    /\ pc = "for_product"
    /\ pos = Len(batch)
    /\ pc' = "for_i"
    /\ UNCHANGED <<indexerVars, op, products, batch_size, failAt, loopVars, addLog,
                   attempts, searchArgs, searchLog, result, prev>>

\* The outer loop is exhausted: end_time, the report.
IndexProductsReturn(d) ==
    /\ UNCHANGED notProductRagVars
    /\ pc = "for_i"
    /\ starts = << >>
    /\ result' = Report(indexed_count, error_count, products, d)
    /\ pc' = "idle"
    /\ UNCHANGED <<indexerVars, op, products, batch_size, failAt, loopVars, addLog,
                   attempts, searchArgs, searchLog, prev>>

\* ---------------------------------------------------------------- search
\* A comprehension that keeps only the scores above the threshold.
FilterHitsStrict(results, min_score) ==
    LET Keep(r) == r.score > min_score
        Shape(r) == [text |-> r.text, metadata |-> r.metadata, score |-> r.score]
        kept == SelectSeq(results, Keep)
    IN  [k \in 1..Len(kept) |-> Shape(kept[k])]

\* A comprehension over the results sorted by descending score.
RECURSIVE SortByScore(_)
SortByScore(seq) ==
    IF seq = << >> THEN << >>
    ELSE LET m == CHOOSE k \in 1..Len(seq) :
                      \A j \in 1..Len(seq) :
                          seq[k].score > seq[j].score \/ (seq[k].score = seq[j].score /\ k <= j)
         IN  <<seq[m]>> \o SortByScore(SubSeq(seq, 1, m - 1) \o SubSeq(seq, m + 1, Len(seq)))

FilterHitsSorted(results, min_score) ==
    LET Keep(r) == r.score >= min_score
        Shape(r) == [text |-> r.text, metadata |-> r.metadata, score |-> r.score]
        kept == SortByScore(SelectSeq(results, Keep))
    IN  [k \in 1..Len(kept) |-> Shape(kept[k])]

\* The comprehension of lines 175-183.
FilterHits(results, min_score) ==
    LET Keep(r) == r.score >= min_score
        Shape(r) == [text |-> r.text, metadata |-> r.metadata, score |-> r.score]
        kept == SelectSeq(results, Keep)
    IN  [k \in 1..Len(kept) |-> Shape(kept[k])]

\* What vector_db.search(query, limit=limit) did: raised, or returned results.
StoreRaised == [kind |-> "raise", exc |-> "StoreError"]

StoreReturned(results) == [kind |-> "results", results |-> results]

\* A search that asks the store a second time when it got fewer results than
\* limit.
SearchCallsTopUp(query, limit, outcome) ==
    IF outcome.kind = "results" /\ Len(outcome.results) < limit
    THEN <<[query |-> query, limit |-> limit, outcome |-> outcome],
           [query |-> query, limit |-> limit, outcome |-> outcome]>>
    ELSE <<[query |-> query, limit |-> limit, outcome |-> outcome]>>

\* The calls search makes to vector_db.search (line 173), each with what the
\* store answered.
SearchCalls(query, limit, outcome) ==
    <<[query |-> query, limit |-> limit, outcome |-> outcome]>>

\* A search that answers a failed store call with an empty list.
SearchResultSwallow(outcome, min_score) ==
    IF outcome.kind = "raise" THEN [kind |-> "hits", hits |-> << >>]
    ELSE [kind |-> "hits", hits |-> FilterHits(outcome.results, min_score)]

\* What search hands to its caller: the exception of the store call passes
\* through (there is no try), the results go through the comprehension.
SearchResult(outcome, min_score) ==
    IF outcome.kind = "raise" THEN Raise(outcome.exc)
    ELSE [kind |-> "hits", hits |-> FilterHits(outcome.results, min_score)]

Search(query, limit, min_score, raises, results) ==
    /\ UNCHANGED notProductRagVars
    /\ Callable
    /\ op' = "search"
    /\ searchArgs' = [query |-> query, limit |-> limit, min_score |-> min_score]
    /\ ClearIndexFrame
    /\ IF NotReady(_initialized)
       THEN /\ result' = Raise("RuntimeError")
            /\ searchLog' = << >>
       ELSE IF vector_db = None
       THEN /\ result' = Raise("AttributeError")
            /\ searchLog' = << >>
       ELSE LET outcome == IF raises THEN StoreRaised ELSE StoreReturned(results)
            IN  /\ searchLog' = SearchCalls(query, limit, outcome)
                /\ result' = SearchResult(outcome, min_score)
    /\ UNCHANGED <<indexerVars, pc>>

\* ------------------------------------------------------------------ next
Next ==
    \/ \E built \in BOOLEAN : Initialize(built)
    \/ /\ Callable
       /\ \E input \in SmallInputs, b \in BatchSizes :
             IndexProductsCall(input.products, input.failAt, b)
    \/ /\ Callable
       /\ \E b \in ExampleBatchSizes :
             IndexProductsCall(ExampleInput.products, ExampleInput.failAt, b)
    \/ \E b \in SizesFor(products) : IndexProductsCall(products, failAt, b)
    \/ ForBatch
    \/ ForProduct
    \/ ForProductEnd
    \/ \E d \in 0..MaxDur : IndexProductsReturn(d)
    \/ /\ Callable
       /\ \E query \in Queries, limit \in Limits, min_score \in MinScores,
             raises \in BOOLEAN, results \in StoreResults :
             Search(query, limit, min_score, raises, results)
    \/ /\ Callable
       /\ Search(ExampleSearch.query, ExampleSearch.limit, ExampleSearch.min_score,
                 FALSE, ExampleSearch.results)
    \/ TakeResult

Spec == Init /\ [][Next]_vars

\* ============================================================ b2b_chatbot
MaxRequests == 3

Messages == {"salut", "pret banda LED"}

SessionIds == {None, Some("s1")}

\* What the environment does to one initialize() call: create_knowledge_base
\* raises, the model or Agent constructor raises, or everything is built.
InitOutcomes == {"knowledge_raises", "agent_raises", "ok"}

\* What agent.run does with a message.
RunOutcomes == {"content", "raises"}

\* The environment variables AIConfig reads: GOOGLE_API_KEY set or not.
ChatConfigs == {[has_google |-> g] : g \in BOOLEAN}

\* B2BChatbotAgent.__init__.
B2BChatbotAgent(use_gemini, cfg) ==
    [config |-> cfg, use_gemini |-> use_gemini, knowledge |-> None, agent |-> None,
     _initialized |-> FALSE]

\* B2BChatbotAgent.initialize(): the object afterwards, and the exception that
\* left it, if any.
AgentInitialize(self, outcome) ==
    IF outcome = "knowledge_raises"
    THEN [self |-> self, exc |-> Some("create_knowledge_base failed")]
    ELSE LET withKb == [self EXCEPT !.knowledge = Some("b2b_chatbot_kb")]
             model == IF self.use_gemini /\ self.config.has_google
                      THEN "Gemini" ELSE "OpenAIChat"
         IN  IF outcome = "agent_raises"
             THEN [self |-> withKb, exc |-> Some("Agent failed")]
             ELSE [self |-> [withKb EXCEPT !.agent = Some(model), !._initialized = TRUE],
                   exc |-> None]

\* B2BChatbotAgent.get_response(message) = chat(message, stream=False).
AgentChat(self, message, outcome) ==
    IF ~self._initialized
    THEN Raise("Agent not initialized. Call initialize() first.")
    ELSE IF outcome = "raises" THEN Raise("run failed")
    ELSE [kind |-> "return", value |-> <<"reply", message>>]

HTTPException(status_code, detail) == [status |-> status_code, detail |-> detail]

ChatResponse(response, session_id) ==
    [status |-> 200, response |-> response, session_id |-> session_id]

\* A POST /chatbot/chat arrives; the handler runs to completion before the
\* next one starts (it has no await).
ChatRequest(message, session_id) ==
    /\ chatPc = "idle"
    /\ Len(responses) < MaxRequests
    /\ request' = [message |-> message, session_id |-> session_id]
    /\ chatPc' = "get_chatbot"
    /\ UNCHANGED <<_chatbot, agents, responses, notChatbotVars>>

\* get_chatbot(), lines 31-37, inside the try of chat: the assignment to
\* _chatbot precedes initialize(), and an exception of initialize() goes to
\* the except of chat.
GetChatbot(cfg, outcome) ==
    /\ chatPc = "get_chatbot"
    /\ IF _chatbot = None
       THEN LET k == Len(agents) + 1
                done == AgentInitialize(B2BChatbotAgent(TRUE, cfg), outcome)
            IN  /\ _chatbot' = Some(k)
                /\ agents' = Append(agents, done.self)
                /\ IF done.exc = None
                   THEN /\ chatPc' = "get_response"
                        /\ UNCHANGED <<request, responses>>
                   ELSE /\ responses' = Append(responses, HTTPException(500, done.exc[1]))
                        /\ request' = NoArgs
                        /\ chatPc' = "idle"
       ELSE /\ chatPc' = "get_response"
            /\ UNCHANGED <<_chatbot, agents, request, responses>>
    /\ UNCHANGED notChatbotVars

\* chatbot.get_response(request.message) and the return or except of chat.
GetResponse(outcome) ==
    /\ chatPc = "get_response"
    /\ LET answer == AgentChat(agents[_chatbot[1]], request.message, outcome)
       IN  responses' = Append(responses,
               IF answer.kind = "raise" THEN HTTPException(500, answer.exc)
               ELSE ChatResponse(answer.value, request.session_id))
    /\ request' = NoArgs
    /\ chatPc' = "idle"
    /\ UNCHANGED <<_chatbot, agents, notChatbotVars>>

ChatNext ==
    \/ \E message \in Messages, session_id \in SessionIds : ChatRequest(message, session_id)
    \/ \E cfg \in ChatConfigs, outcome \in InitOutcomes : GetChatbot(cfg, outcome)
    \/ \E outcome \in RunOutcomes : GetResponse(outcome)

ChatSpec == Init /\ [][ChatNext]_vars

\* ============================================================ deploy_auto
\* Exit statuses of ssh, scp and rsync: success, a general error, a protocol
\* error of rsync, a connection error of ssh.
ExitCodes == {0, 1, 12, 255}

\* What one command meets: its exit status, and whether the server asked to
\* retype a new password.
CommandRuns == [exit : ExitCodes, retype : BOOLEAN]

\* run_command_with_password: (exit status, password_changed).
run_command_with_password(password, new_password, run) ==
    [exit_code |-> run.exit, password_changed |-> new_password # None /\ run.retype]

\* `word in text` on strings given as sequences of characters.
PyIn(word, text) ==
    \E k \in 1..Len(text) :
        k + Len(word) - 1 <= Len(text) /\ SubSeq(text, k, k + Len(word) - 1) = word

Denied == <<"d", "e", "n", "i", "e", "d">>

Ran(command, password, status) ==
    [command |-> command, password |-> password, exit |-> status]

\* Lines 77-101: the credential check, and what follows it when the password
\* was not changed.
CheckCredentials(run, retry) ==
    /\ deployPc = "check_credentials"
    /\ LET r == run_command_with_password(current_password, Some("NEW_PASSWORD"), run)
       IN  /\ changed' = r.password_changed
           /\ IF r.password_changed
              THEN /\ commands' = Append(commands, Ran("check", current_password, r.exit_code))
                   /\ exit_code' = Some(r.exit_code)
                   /\ current_password' = "NEW_PASSWORD"
                   /\ deployPc' = "verify"
                   /\ UNCHANGED printed
              ELSE IF r.exit_code # 0 /\ PyIn(Denied, Dec(r.exit_code))
              THEN LET again == run_command_with_password("NEW_PASSWORD", None, retry)
                   IN  /\ commands' = commands \o
                              <<Ran("check", current_password, r.exit_code),
                                Ran("check", "NEW_PASSWORD", again.exit_code)>>
                       /\ exit_code' = Some(again.exit_code)
                       /\ IF again.exit_code = 0
                          THEN /\ current_password' = "NEW_PASSWORD"
                               /\ deployPc' = "copy_setup"
                               /\ UNCHANGED printed
                          ELSE /\ printed' = Append(printed, "ERROR")
                               /\ deployPc' = "done"
                               /\ UNCHANGED current_password
              ELSE /\ commands' = Append(commands, Ran("check", current_password, r.exit_code))
                   /\ exit_code' = Some(r.exit_code)
                   /\ deployPc' = "copy_setup"
                   /\ UNCHANGED <<current_password, printed>>
    /\ UNCHANGED notDeployVars

\* A command whose non-zero exit status makes main print a message and return.
CheckedCommand(command, next, run) ==
    /\ LET r == run_command_with_password(current_password, None, run)
       IN  /\ commands' = Append(commands, Ran(command, current_password, r.exit_code))
           /\ exit_code' = Some(r.exit_code)
           /\ IF r.exit_code # 0
              THEN /\ printed' = Append(printed, "ERROR")
                   /\ deployPc' = "done"
              ELSE /\ deployPc' = next
                   /\ UNCHANGED printed
    /\ UNCHANGED <<current_password, changed, notDeployVars>>

\* Lines 86-91.
VerifyCredentials(run) ==
    /\ deployPc = "verify"
    /\ CheckedCommand("verify", "copy_setup", run)

\* Lines 106-113.
CopySetupScript(run) ==
    /\ deployPc = "copy_setup"
    /\ CheckedCommand("copy_setup", "run_setup", run)

\* Lines 115-122.
RunSetupScript(run) ==
    /\ deployPc = "run_setup"
    /\ CheckedCommand("run_setup", "rsync", run)

\* Lines 129-143.
Rsync(run) ==
    /\ deployPc = "rsync"
    /\ CheckedCommand("rsync", "copy_env", run)

\* Lines 145-149: the exit status is assigned and not looked at.
CopyEnv(run) ==
    /\ deployPc = "copy_env"
    /\ LET r == run_command_with_password(current_password, None, run)
       IN  /\ commands' = Append(commands, Ran("copy_env", current_password, r.exit_code))
           /\ exit_code' = Some(r.exit_code)
    /\ deployPc' = "compose_up"
    /\ UNCHANGED <<current_password, changed, printed, notDeployVars>>

\* Lines 151-162.
ComposeUp(run) ==
    /\ deployPc = "compose_up"
    /\ LET r == run_command_with_password(current_password, None, run)
       IN  /\ commands' = Append(commands, Ran("compose_up", current_password, r.exit_code))
           /\ exit_code' = Some(r.exit_code)
           /\ printed' = Append(printed, IF r.exit_code = 0 THEN "SUCCESS" ELSE "FAILURE")
    /\ deployPc' = "done"
    /\ UNCHANGED <<current_password, changed, notDeployVars>>

DeployNext ==
    \/ \E run \in CommandRuns, retry \in CommandRuns : CheckCredentials(run, retry)
    \/ \E run \in CommandRuns : VerifyCredentials(run)
    \/ \E run \in CommandRuns : CopySetupScript(run)
    \/ \E run \in CommandRuns : RunSetupScript(run)
    \/ \E run \in CommandRuns : Rsync(run)
    \/ \E run \in CommandRuns : CopyEnv(run)
    \/ \E run \in CommandRuns : ComposeUp(run)

DeploySpec == Init /\ [][DeployNext]_vars

\* ======================================================= supplier_scraper
MaxSuppliers == 3

\* SupplierConfig: name and base_url are required, the rest has defaults.
SupplierConfig(name, base_url) == [name |-> name, base_url |-> base_url]

\* The configurations a caller adds; two of them carry the same name.
SupplierPool ==
    {SupplierConfig("Supplier A", "https://supplier-a.example.com/products"),
     SupplierConfig("Supplier A", "https://supplier-a.example.com/outlet"),
     SupplierConfig("Supplier B", "https://supplier-b.example.com/products")}

\* What the browser automation does during one scrape_supplier call.
ScrapeOutcomes == {"completes", "raises"}

\* scrape_supplier: the list results is created empty (line 83) and returned
\* (line 133) without an append in between; an exception of the MCP app, the
\* browser agent or the LLM passes through.
scrape_supplier(supplier, outcome) ==
    IF outcome = "raises" THEN Raise("Exception")
    ELSE [kind |-> "return", value |-> << >>]

\* results[key] = value on a dict.
DictSet(dict, key, value) ==
    [k \in (DOMAIN dict) \cup {key} |-> IF k = key THEN value ELSE dict[k]]

\* add_supplier; a caller may add while a scrape is awaited.
AddSupplier(supplier) ==
    /\ Len(suppliers) < MaxSuppliers
    /\ suppliers' = Append(suppliers, supplier)
    /\ UNCHANGED <<scrapePc, supplierIdx, scrapeResults, scrapeAttempts, scrapeReturn,
                   notScraperVars>>

\* scrape_all_suppliers is called: lines 142-144, up to the first next() of
\* the list iterator.
ScrapeAllSuppliers ==
    /\ scrapePc = "idle"
    /\ scrapeResults' = << >>
    /\ supplierIdx' = 0
    /\ scrapeAttempts' = << >>
    /\ scrapeReturn' = None
    /\ scrapePc' = "for_supplier"
    /\ UNCHANGED <<suppliers, notScraperVars>>

\* A scrape that leaves no entry for a supplier whose scrape raised.
ForSupplierNoEntryOnError(outcome) ==
    /\ scrapePc = "for_supplier"
    /\ supplierIdx < Len(suppliers)
    /\ LET supplier == suppliers[supplierIdx + 1]
           got == scrape_supplier(supplier, outcome)
       IN  /\ scrapeAttempts' = Append(scrapeAttempts, [supplier |-> supplier, got |-> got])
           /\ scrapeResults' = IF got.kind = "return"
                               THEN DictSet(scrapeResults, supplier.name, got.value)
                               ELSE scrapeResults
    /\ supplierIdx' = supplierIdx + 1
    /\ UNCHANGED <<suppliers, scrapePc, scrapeReturn, notScraperVars>>

\* One iteration of the for loop, lines 144-150: the iterator yields the next
\* element of self.suppliers, as long as the list has one.
ForSupplier(outcome) ==
    /\ scrapePc = "for_supplier"
    /\ supplierIdx < Len(suppliers)
    /\ LET supplier == suppliers[supplierIdx + 1]
           got == scrape_supplier(supplier, outcome)
       IN  /\ scrapeAttempts' = Append(scrapeAttempts, [supplier |-> supplier, got |-> got])
           /\ scrapeResults' = IF got.kind = "return"
                               THEN DictSet(scrapeResults, supplier.name, got.value)
                               ELSE DictSet(scrapeResults, supplier.name, << >>)
    /\ supplierIdx' = supplierIdx + 1
    /\ UNCHANGED <<suppliers, scrapePc, scrapeReturn, notScraperVars>>

\* The iterator is exhausted: line 152.
ScrapeAllReturn ==
    /\ scrapePc = "for_supplier"
    /\ supplierIdx >= Len(suppliers)
    /\ scrapeReturn' = Some(scrapeResults)
    /\ scrapePc' = "idle"
    /\ UNCHANGED <<suppliers, supplierIdx, scrapeResults, scrapeAttempts, notScraperVars>>

ScraperNext ==
    \/ \E supplier \in SupplierPool : AddSupplier(supplier)
    \/ ScrapeAllSuppliers
    \/ \E outcome \in ScrapeOutcomes : ForSupplier(outcome)
    \/ ScrapeAllReturn

ScraperSpec == Init /\ [][ScraperNext]_vars

\* ============================== deploy_auto: run_command_with_password
MaxChunks == 3

\* What the child terminal prints, one os.read at a time, as the sequence of
\* the words and separators of the chunk.
LoginPrompt == <<"root@server's", " ", "password", ":", " ">>

HostKeyPrompt == <<"Are you sure you want to", " ", "continue", " ", "connecting",
                   " ", "(yes/no)?", " ">>

CurrentPrompt == <<"Current", " ", "password", ":", " ">>

NewPrompt == <<"New", " ", "password", ":", " ">>

RetypePrompt == <<"Retype", " ", "new", " ", "password", ":", " ">>

Banner == <<"Connection Verified", "\r\n">>

Chunks == {LoginPrompt, HostKeyPrompt, CurrentPrompt, NewPrompt, RetypePrompt, Banner}

\* bytes.lower(), word by word.
LowerWord(w) ==
    CASE w = "Current" -> "current"
      [] w = "New" -> "new"
      [] w = "Retype" -> "retype"
      [] w = "Are you sure you want to" -> "are you sure you want to"
      [] w = "Connection Verified" -> "connection verified"
      [] OTHER -> w

Lower(chunk) == [k \in 1..Len(chunk) |-> LowerWord(chunk[k])]

\* The arguments main passes: the current password, and the new password for
\* the credential check only.
Passwords == {"INITIAL_PASSWORD", "NEW_PASSWORD"}

NewPasswords == {None, Some("NEW_PASSWORD")}

Line(text) == <<text, "\n">>

\* Lines 35-63: the os.write calls one chunk triggers, in order.  The five
\* tests are separate if statements, each on the whole lowered chunk.
Writes(chunk, password, new_password) ==
    LET chunk_lower == Lower(chunk)
    IN  (IF /\ PyIn(<<"password", ":">>, chunk_lower)
            /\ ~PyIn(<<"new">>, chunk_lower)
            /\ ~PyIn(<<"retype">>, chunk_lower)
         THEN <<Line(password)>> ELSE << >>)
        \o (IF PyIn(<<"continue", " ", "connecting">>, chunk_lower)
            THEN <<Line("yes")>> ELSE << >>)
        \o (IF PyIn(<<"current">>, chunk_lower) /\ PyIn(<<"password">>, chunk_lower)
            THEN <<Line("INITIAL_PASSWORD")>> ELSE << >>)
        \o (IF PyIn(<<"new", " ", "password", ":">>, chunk_lower) /\ new_password # None
            THEN <<Line(new_password[1])>> ELSE << >>)
        \o (IF PyIn(<<"retype", " ", "new", " ", "password", ":">>, chunk_lower)
               /\ new_password # None
            THEN <<Line(new_password[1])>> ELSE << >>)

\* Lines 59-63: the retype test, with a new password at hand.
SetsChanged(chunk, new_password) ==
    PyIn(<<"retype", " ", "new", " ", "password", ":">>, Lower(chunk)) /\ new_password # None

\* Lines 15-22: the child is forked on a pty.
RunCommand(password, new_password) ==
    /\ ptyPc = "idle"
    /\ ptyArgs' = [password |-> password, new_password |-> new_password]
    /\ handled' = << >>
    /\ password_changed' = FALSE
    /\ ptyResult' = None
    /\ ptyPc' = "read"
    /\ UNCHANGED notPtyVars

\* Lines 26-63: one os.read that yields a chunk, and its handling.
ReadChunk(chunk) ==
    /\ ptyPc = "read"
    /\ Len(handled) < MaxChunks
    /\ handled' = Append(handled,
           [chunk |-> chunk,
            writes |-> Writes(chunk, ptyArgs.password, ptyArgs.new_password)])
    /\ password_changed' = (password_changed \/ SetsChanged(chunk, ptyArgs.new_password))
    /\ UNCHANGED <<ptyPc, ptyArgs, ptyResult, notPtyVars>>

\* Lines 27-28 and 65-66: os.read yields nothing, or raises OSError.
ReadEnd ==
    /\ ptyPc = "read"
    /\ ptyPc' = "waitpid"
    /\ UNCHANGED <<ptyArgs, handled, password_changed, ptyResult, notPtyVars>>

\* Lines 68-69.
WaitPid(status) ==
    /\ ptyPc = "waitpid"
    /\ ptyResult' = Some(<<status, password_changed>>)
    /\ ptyPc' = "idle"
    /\ UNCHANGED <<ptyArgs, handled, password_changed, notPtyVars>>

PtyNext ==
    \/ \E password \in Passwords, new_password \in NewPasswords :
           RunCommand(password, new_password)
    \/ \E chunk \in Chunks : ReadChunk(chunk)
    \/ ReadEnd
    \/ \E status \in ExitCodes : WaitPid(status)

PtySpec == Init /\ [][PtyNext]_vars

\* =================================================================== claims
ReportReturned == op = "index_products" /\ pc = "idle" /\ result.kind = "report"

Running == pc # "idle"

\* How many elements of a sequence satisfy a test.
CountSeq(seq, Test(_)) == Cardinality({k \in 1..Len(seq) : Test(seq[k])})

Formats(product) == _product_to_text(product).ok

AddOk(call) == call.outcome = "ok"

AddRaised(call) == call.outcome # "ok"

FormatRaised(product) == ~Formats(product)

ProductIdOf(call) == call.metadata.product_id

IdsOf(seq) == [k \in 1..Len(seq) |-> seq[k].id]

\* ---- C1
\* C1: a report returned by index_products on an initialized indexer with
\* batch_size >= 1 has indexed + errors = total and total = len(records),
\* whatever the records and whichever add calls the store rejects.
C1_Accounting ==
    (ReportReturned /\ batch_size >= 1) =>
        /\ result.indexed + result.errors = result.total
        /\ result.total = Len(products)

\* A run over several batches in which a record failed to format, an add was
\* rejected and an add succeeded.
C1_Witness ==
    /\ ReportReturned
    /\ batch_size >= 1
    /\ batch_size < Len(products)
    /\ result.indexed >= 1
    /\ CountSeq(products, FormatRaised) >= 1
    /\ CountSeq(addLog, AddRaised) >= 1

\* ---- C2
\* C2: two runs on the same records against the same deterministic store, with
\* batch sizes b1 >= 1 and b2 >= 1, return the same indexed, errors and total
\* and issue the same sequence of add calls.
C2_BatchSizeInvariance ==
    (ReportReturned /\ prev.kind = "run" /\ batch_size >= 1 /\ prev.batch_size >= 1) =>
        /\ result.indexed = prev.indexed
        /\ result.errors = prev.errors
        /\ result.total = prev.total
        /\ addLog = prev.calls

\* Three records run first in one batch and then in batches of one or two, with
\* a rejected add.
C2_Witness ==
    /\ ReportReturned
    /\ prev.kind = "run"
    /\ prev.batch_size >= Len(products)
    /\ batch_size >= 1
    /\ batch_size < Len(products)
    /\ Len(products) = 3
    /\ CountSeq(addLog, AddRaised) >= 1
    /\ result.indexed >= 1

\* ---- C3
\* C3: on an initialized indexer with batch_size >= 1 index_products terminates
\* with a report and never raises for a per-record failure.  Every step of a
\* run strictly decreases a natural-number measure of the work left or returns
\* the report, a step is always possible while the run is in progress, a record
\* that fails costs exactly one error and leaves the run in progress, and the
\* report is returned only after every record was taken.
StepsLeft ==
    Len(starts) * (Len(products) + 2)
    + (IF pc = "for_product" THEN Len(batch) - pos + 1 ELSE 0)

RunStep == ForBatch \/ ForProduct \/ ForProductEnd \/ (\E d \in 0..MaxDur : IndexProductsReturn(d))

C3_StepOk ==
    (Running /\ batch_size >= 1) =>
        \/ /\ pc' # "idle"
           /\ StepsLeft' < StepsLeft
           /\ StepsLeft' >= 0
           /\ (attempts' # attempts /\ indexed_count' = indexed_count) =>
                 error_count' = error_count + 1
        \/ pc' = "idle" /\ result'.kind = "report" /\ Len(attempts') = Len(products')

C3_AlwaysReturnsReport ==
    /\ [](Running => ENABLED RunStep)
    /\ [][C3_StepOk]_vars

\* A run that has returned its report although its first record failed to
\* format and a later add was rejected.
C3_Witness ==
    /\ ReportReturned
    /\ batch_size >= 1
    /\ Len(products) >= 3
    /\ FormatRaised(products[1])
    /\ CountSeq(addLog, AddRaised) >= 1
    /\ result.indexed >= 1

\* ---- C4
\* C4: _product_to_text returns a text for every well-formed record, also one
\* without price, subcategory and brand and with empty specs and tags: every
\* record the run has taken formatted and was submitted, so a run in which the
\* store rejects no add reports errors = 0.
C4_FormatterNeverFails ==
    (op = "index_products" /\ _initialized /\ batch_size >= 1) =>
        /\ \A k \in 1..Len(attempts) : Formats(products[k])
        /\ Len(addLog) = Len(attempts)
        /\ (ReportReturned /\ CountSeq(addLog, AddRaised) = 0) => result.errors = 0

\* ---- C5
\* C5: for every record a run has taken, the text holds the literal "Contact
\* for pricing" exactly when b2b_price is absent (a present price is rendered
\* as a currency amount instead), and a record without subcategory and without
\* price formats to a text holding "Category: <category> > General" and
\* "Contact for pricing".
HasPiece(text, piece) == \E k \in 1..Len(text) : text[k] = piece

HasRun(text, run) ==
    \E k \in 0..(Len(text) - Len(run)) : SubSeq(text, k + 1, k + Len(run)) = run

C5_Holds(product) ==
    LET text == _product_to_text(product)
    IN  /\ text.ok
        /\ HasPiece(text.value, "Contact for pricing") <=> (product.b2b_price = None)
        /\ product.b2b_price # None =>
              HasRun(text.value, <<"B2B Price: €">> \o Fmt2f(product.b2b_price[1]) \o <<"\n">>)
        /\ (product.subcategory = None /\ product.b2b_price = None) =>
              HasRun(text.value, <<"Category: ", product.category, " > ", "General">>)

C5_PriceRendering ==
    (op = "index_products" /\ _initialized /\ batch_size >= 1) =>
        \A k \in 1..Len(attempts) : C5_Holds(products[k])

\* ---- C6
\* C6: in a returned report (batch_size >= 1) indexed is the number of add calls
\* that returned and errors is the number of records whose formatting raised
\* plus the number of add calls that raised; ten records that format, a store
\* that rejects every third add and batch_size 4 give 7, 3, 10.
C6_CountsMatchOutcomes ==
    (ReportReturned /\ batch_size >= 1) =>
        /\ result.indexed = CountSeq(addLog, AddOk)
        /\ result.errors = CountSeq(products, FormatRaised) + CountSeq(addLog, AddRaised)
        /\ (products = ExampleInput.products /\ failAt = ExampleInput.failAt /\ batch_size = 4) =>
              (result.indexed = 7 /\ result.errors = 3 /\ result.total = 10)

\* The example run has returned.
C6_Witness ==
    /\ ReportReturned
    /\ products = ExampleInput.products
    /\ failAt = ExampleInput.failAt
    /\ batch_size = 4
    /\ CountSeq(addLog, AddRaised) = 3

\* ---- C7
\* C7: with batch_size >= 1 the records are taken one by one in input order
\* across the batches, each once; the add calls are, in order, those of the
\* taken records that formatted: one call each, none for a record whose
\* formatting raised, none repeated; and the report comes after the last record.
Taken == SubSeq(products, 1, Len(attempts))

C7_SequentialInOrder ==
    (op = "index_products" /\ batch_size >= 1) =>
        /\ Len(attempts) <= Len(products)
        /\ attempts = IdsOf(Taken)
        /\ [k \in 1..Len(addLog) |-> ProductIdOf(addLog[k])] = IdsOf(SelectSeq(Taken, Formats))
        /\ \A k \in 1..Len(addLog) :
              LET product == products[ProductIdOf(addLog[k])]
              IN  /\ addLog[k].text = _product_to_text(product).value
                  /\ addLog[k].metadata = Metadata(product)
        /\ ReportReturned => Len(attempts) = Len(products)

\* A run in the middle of its second batch, after a record that did not format
\* and a rejected add.
C7_Witness ==
    /\ op = "index_products"
    /\ pc = "for_product"
    /\ batch_size >= 1
    /\ i >= batch_size
    /\ pos >= 1
    /\ Len(addLog) < Len(attempts)
    /\ CountSeq(addLog, AddRaised) >= 1

\* ---- C8
\* C8: index_products with batch_size <= 0 on an initialized indexer fails with
\* an invalid-argument error: it returns no report (so none with indexed +
\* errors # total) and submits nothing to the store.
C8_NonPositiveBatchRejected ==
    (op = "index_products" /\ _initialized /\ batch_size <= 0) =>
        /\ addLog = << >>
        /\ pc = "idle" => (result.kind = "raise" /\ result.exc = "ValueError")

\* ---- C9
\* C9: index_products([]) on an initialized indexer with batch_size >= 1 makes
\* no store call, raises nothing and returns indexed = 0, errors = 0, total = 0
\* and products_per_second = 0.
C9_EmptyInput ==
    (op = "index_products" /\ _initialized /\ products = << >> /\ batch_size >= 1) =>
        /\ addLog = << >>
        /\ searchLog = << >>
        /\ result.kind # "raise"
        /\ pc = "idle" =>
              /\ result.kind = "report"
              /\ result.indexed = 0
              /\ result.errors = 0
              /\ result.total = 0
              /\ result.products_per_second.num = 0

\* The empty run has returned, in no measurable time.
C9_Witness ==
    /\ ReportReturned
    /\ _initialized
    /\ products = << >>
    /\ batch_size >= 1
    /\ result.duration = 0

\* ---- C10
\* C10: before initialize() has completed, search and index_products raise the
\* not-ready RuntimeError, call the store neither for add nor for search, and
\* leave the indexer as constructed; once it has completed, neither raises the
\* not-ready error.
C10_NotReadyGuard ==
    /\ ~_initialized =>
          /\ vector_db = None
          /\ config = get_config
          /\ table_name = "product_catalog"
          /\ addLog = << >>
          /\ searchLog = << >>
          /\ pc = "idle"
    /\ (op \in {"index_products", "search"} /\ pc = "idle") =>
          (result = Raise("RuntimeError") <=> ~_initialized)

\* index_products was refused on an indexer that is not initialized.
C10_Witness ==
    /\ op = "index_products"
    /\ ~_initialized
    /\ products # << >>
    /\ batch_size >= 1
    /\ result = Raise("RuntimeError")

\* ---- C11
\* C11: whatever the query, the limit, min_score and the results the store
\* returns, every hit search returns has score >= min_score and every store
\* result with score >= min_score is among the hits; a score equal to min_score
\* is kept.
HitsReturned == op = "search" /\ result.kind = "hits"

StoreAnswer == searchLog[1].outcome.results

ShapeOf(r) == [text |-> r.text, metadata |-> r.metadata, score |-> r.score]

C11_ScoreThreshold ==
    (HitsReturned /\ Len(searchLog) >= 1) =>
        /\ \A k \in 1..Len(result.hits) : result.hits[k].score >= searchArgs.min_score
        /\ \A j \in 1..Len(StoreAnswer) :
              StoreAnswer[j].score >= searchArgs.min_score =>
                  \E k \in 1..Len(result.hits) : result.hits[k] = ShapeOf(StoreAnswer[j])

\* The store returned a result below the threshold and one exactly on it; the
\* one on it was kept.
C11_Witness ==
    /\ HitsReturned
    /\ Len(searchLog) = 1
    /\ \E j \in 1..Len(StoreAnswer) : StoreAnswer[j].score < searchArgs.min_score
    /\ \E k \in 1..Len(result.hits) : result.hits[k].score = searchArgs.min_score

\* ---- C12
\* C12: for every limit >= 1 and every result sequence the store returns,
\* search returns at most limit hits.
C12_AtMostLimit ==
    (HitsReturned /\ searchArgs.limit >= 1) => Len(result.hits) <= searchArgs.limit

\* ---- C13
\* C13: the hits are the store's results with score >= min_score, in the
\* store's order, each once: the k-th hit is the k-th qualifying result.  Scores
\* 0.9, 0.6, 0.3 with min_score 0.5 and limit 10 give the hits 0.9, 0.6.
Qualifying == {j \in 1..Len(StoreAnswer) : StoreAnswer[j].score >= searchArgs.min_score}

NthQualifying(k) == CHOOSE j \in Qualifying : Cardinality({q \in Qualifying : q <= j}) = k

C13_StoreOrderKept ==
    (HitsReturned /\ Len(searchLog) >= 1) =>
        /\ Len(result.hits) = Cardinality(Qualifying)
        /\ \A k \in 1..Len(result.hits) : result.hits[k] = ShapeOf(StoreAnswer[NthQualifying(k)])
        /\ (searchArgs = [query |-> ExampleSearch.query, limit |-> ExampleSearch.limit,
                          min_score |-> ExampleSearch.min_score]
            /\ StoreAnswer = ExampleSearch.results) =>
              result.hits = <<ShapeOf(StripHit), ShapeOf(SampleHit)>>

\* The store answered in ascending score order and both results were kept.
C13_Witness ==
    /\ HitsReturned
    /\ Len(searchLog) = 1
    /\ Len(result.hits) = 2
    /\ result.hits[1].score < result.hits[2].score

\* ---- C14
\* C14: a search on an initialized indexer makes exactly one vector_db.search
\* call, with the caller's query and limit, no second call when fewer than
\* limit hits are left, and no add call.
C14_OneStoreCall ==
    (op = "search" /\ _initialized) =>
        /\ Len(searchLog) = 1
        /\ searchLog[1].query = searchArgs.query
        /\ searchLog[1].limit = searchArgs.limit
        /\ addLog = << >>

\* Filtering left fewer hits than limit.
C14_Witness ==
    /\ HitsReturned
    /\ _initialized
    /\ Len(searchLog) = 1
    /\ Len(StoreAnswer) >= 1
    /\ Len(result.hits) < Len(StoreAnswer)
    /\ Len(result.hits) < searchArgs.limit

\* ---- C15
\* C15: when the store's search call raises, search raises the same error and
\* returns no list; a finished index_products run with batch_size >= 1 on an
\* initialized indexer returns a report although adds were rejected.
C15_SearchFailurePropagates ==
    /\ (op = "search" /\ Len(searchLog) >= 1 /\ searchLog[1].outcome.kind = "raise") =>
          result = Raise(searchLog[1].outcome.exc)
    /\ (op = "index_products" /\ _initialized /\ batch_size >= 1 /\ pc = "idle") =>
          result.kind = "report"

\* The store's search call raised.
C15_Witness ==
    /\ op = "search"
    /\ _initialized
    /\ Len(searchLog) = 1
    /\ searchLog[1].outcome.kind = "raise"
    /\ result.kind = "raise"

\* ---- C16
\* C16: search with an empty query, a limit < 1 or a min_score outside [0, 1]
\* on an initialized indexer fails with an invalid-argument error before any
\* store call.
InvalidSearchArgs ==
    \/ searchArgs.query = ""
    \/ searchArgs.limit < 1
    \/ searchArgs.min_score < 0
    \/ searchArgs.min_score > 10

C16_InvalidSearchRejected ==
    (op = "search" /\ _initialized /\ InvalidSearchArgs) =>
        /\ result = Raise("ValueError")
        /\ searchLog = << >>

\* ---- C18
\* C18: only initialize() changes the indexer's config, table_name, vector_db
\* and _initialized; no step of index_products or search, successful or
\* failing, changes any of them.
C18_StepOk ==
    (indexerVars' # indexerVars) => (op' = "initialize" /\ result'.kind = "return")

C18_OnlyInitializeWrites == [][C18_StepOk]_vars

\* A run over two batches with an error has returned on the client that
\* initialize() built.
C18_Witness ==
    /\ ReportReturned
    /\ batch_size >= 1
    /\ batch_size < Len(products)
    /\ result.errors >= 1
    /\ indexerVars = <<get_config, "product_catalog", Some(1), TRUE>>

\* ---- C19
\* C19: get_chatbot constructs at most one B2BChatbotAgent, every agent it
\* hands to the chat endpoint has completed initialize(), and an agent whose
\* initialize() raised is not kept in _chatbot between requests.
C19_OnlyInitializedAgentKept ==
    /\ Len(agents) <= 1
    /\ (chatPc \in {"idle", "get_response"} /\ _chatbot # None) =>
          agents[_chatbot[1]]._initialized

\* ---- C20
\* C20: main runs its commands in the order credential check, copy setup
\* script, run setup script, rsync, copy .env, docker compose up; a command is
\* started only when the step before it exited 0 (the credential check counts
\* with its re-verification, when the password was changed); SUCCESS is
\* printed only when every step exited 0.
StepOrder == <<"check", "verify", "copy_setup", "run_setup", "rsync", "copy_env", "compose_up">>

StepIndex(command) == CHOOSE k \in 1..Len(StepOrder) : StepOrder[k] = command

C20_StopsAtFirstFailure ==
    /\ \A k \in 2..Len(commands) :
          /\ StepIndex(commands[k - 1].command) < StepIndex(commands[k].command)
          /\ commands[k].command # "verify" => commands[k - 1].exit = 0
    /\ (\E k \in 1..Len(printed) : printed[k] = "SUCCESS") =>
          \A k \in 1..Len(commands) :
              commands[k].exit = 0
              \/ (commands[k].command = "check" /\ k < Len(commands)
                  /\ commands[k + 1].command = "verify")

\* ---- C21
\* C21 as stated: when scrape_all_suppliers returns, it has attempted every
\* supplier of self.suppliers once, in the order added, also after a failed
\* scrape, and the returned mapping has exactly one entry per supplier added,
\* empty for a supplier whose scrape failed.
ScrapeReturned == scrapePc = "idle" /\ scrapeReturn # None

ScrapeReturns == scrapePc = "for_supplier" /\ scrapePc' = "idle"

AttemptedInOrder ==
    /\ Len(scrapeAttempts) = Len(suppliers)
    /\ \A k \in 1..Len(suppliers) : scrapeAttempts[k].supplier = suppliers[k]

NamesAdded == {suppliers[k].name : k \in 1..Len(suppliers)}

OneEntryPerSupplier ==
    /\ AttemptedInOrder
    /\ DOMAIN scrapeReturn[1] = NamesAdded
    /\ Cardinality(DOMAIN scrapeReturn[1]) = Len(suppliers)
    /\ \A k \in 1..Len(scrapeAttempts) :
          scrapeAttempts[k].got.kind = "raise" =>
              scrapeReturn[1][scrapeAttempts[k].supplier.name] = << >>

C21_OneEntryPerSupplier == [][ScrapeReturns => OneEntryPerSupplier']_vars

\* C21 amended: as above, but the mapping has exactly one entry per distinct
\* supplier name added, and the entry of a name holds what the last supplier
\* of that name gave: its products, or the empty list when its scrape failed.
LastAttemptOf(name) ==
    CHOOSE k \in 1..Len(scrapeAttempts) :
        /\ scrapeAttempts[k].supplier.name = name
        /\ \A j \in (k + 1)..Len(scrapeAttempts) : scrapeAttempts[j].supplier.name # name

OneEntryPerName ==
    /\ AttemptedInOrder
    /\ DOMAIN scrapeReturn[1] = NamesAdded
    /\ \A name \in NamesAdded :
          LET last == scrapeAttempts[LastAttemptOf(name)].got
          IN  scrapeReturn[1][name] = IF last.kind = "raise" THEN << >> ELSE last.value

C21_OneEntryPerName == [][ScrapeReturns => OneEntryPerName']_vars

\* A run over three suppliers has returned; the first scrape raised, the
\* later ones were attempted, and two of the suppliers share a name.
C21_Witness ==
    /\ ScrapeReturned
    /\ Len(suppliers) = 3
    /\ Len(scrapeAttempts) = 3
    /\ scrapeAttempts[1].got.kind = "raise"
    /\ scrapeAttempts[3].got.kind = "return"
    /\ Cardinality(NamesAdded) = 2

\* ---- C22
\* C22: every chunk read from the child triggers at most one write, and that
\* write answers the chunk's prompt: the password argument for a plain
\* password prompt, yes for the host-key prompt, the initial password for the
\* current-password prompt, the new password for the new-password prompt and
\* for the retype prompt; password_changed is true only when a retype prompt
\* was answered.
Answer(chunk) ==
    CASE chunk = LoginPrompt -> <<Line(ptyArgs.password)>>
      [] chunk = HostKeyPrompt -> <<Line("yes")>>
      [] chunk = CurrentPrompt -> <<Line("INITIAL_PASSWORD")>>
      [] chunk \in {NewPrompt, RetypePrompt} ->
            IF ptyArgs.new_password = None THEN << >>
            ELSE <<Line(ptyArgs.new_password[1])>>
      [] OTHER -> << >>

C22_OneAnswerPerChunk ==
    /\ \A k \in 1..Len(handled) :
          /\ Len(handled[k].writes) <= 1
          /\ handled[k].writes = Answer(handled[k].chunk)
    /\ password_changed =>
          \E k \in 1..Len(handled) :
              handled[k].chunk = RetypePrompt /\ handled[k].writes # << >>

====
